---- MODULE Spec2Model ----
(***************************************************************************)
(* Model of create_skill.py: the name sanitizer (sanitize_name) and the    *)
(* skill materializer (create_skill) acting on a file system.              *)
(*                                                                         *)
(* A name is a sequence of characters, each character a string.  Most      *)
(* characters are written as themselves; a few code points that have no    *)
(* ASCII spelling are written by their code point ("U+212A").              *)
(***************************************************************************)
EXTENDS Integers, Sequences, FiniteSets, TLC

VARIABLES
    fs,         \* the file system: absolute path -> [kind, content]
    today,      \* the date datetime.now() reports
    pc,         \* position of the create_skill call in progress
    args,       \* arguments of the current create_skill call
    safe_name,  \* create_skill's local safe_name
    skill_dir,  \* create_skill's local skill_dir
    error,      \* exception raised to the caller by the current call ("" if none)
    result,     \* value returned to the caller by the current call
    fs0,        \* the file system as it was when the current call was made
    written,    \* artifacts written so far by the current call, in order
    prev,       \* how the call before the current one ended, and on which target
    ncalls,     \* number of create_skill calls made
    sanIn,      \* sanitizer harness: the string handed to sanitize_name
    sanOut,     \* sanitizer harness: outcome of sanitize_name(sanIn)
    sanAgain,   \* sanitizer harness: outcome of sanitize_name on sanOut's value
    sanStage    \* sanitizer harness: "input", "once", "twice"

sanVars == <<sanIn, sanOut, sanAgain, sanStage>>

skillVars ==
    <<fs, today, pc, args, safe_name, skill_dir, error, result, fs0, written, prev, ncalls>>

vars == <<skillVars, sanVars>>

-----------------------------------------------------------------------------
(* Program constants *)

MaxNameLen == 64
MaxDescLen == 1024

-----------------------------------------------------------------------------
(* Characters *)

LowerLetters ==
    {"a","b","c","d","e","f","g","h","i","j","k","l","m",
     "n","o","p","q","r","s","t","u","v","w","x","y","z"}

Digits == {"0","1","2","3","4","5","6","7","8","9"}

\* the class [a-z0-9-] of the regular expression on line 15
AllowedChars == LowerLetters \cup Digits \cup {"-"}

UpperSeq ==
    <<"A","B","C","D","E","F","G","H","I","J","K","L","M",
      "N","O","P","Q","R","S","T","U","V","W","X","Y","Z">>

LowerSeq ==
    <<"a","b","c","d","e","f","g","h","i","j","k","l","m",
      "n","o","p","q","r","s","t","u","v","w","x","y","z">>

\* str.lower() of one character.  The result is a string of one or two
\* characters: U+212A (KELVIN SIGN) lowers to "k", U+0130 (LATIN CAPITAL
\* LETTER I WITH DOT ABOVE) lowers to "i" followed by U+0307.
LowerChar(c) ==
    IF \E i \in 1..26 : UpperSeq[i] = c
    THEN <<LowerSeq[CHOOSE i \in 1..26 : UpperSeq[i] = c]>>
    ELSE IF c = "U+212A" THEN <<"k">>
    ELSE IF c = "U+0130" THEN <<"i", "U+0307">>
    ELSE <<c>>

RECURSIVE Lower(_)
\* str.lower(): the lowered characters in their order (the string is halved
\* rather than walked, which keeps the recursion shallow)
Lower(s) ==
    IF s = <<>> THEN <<>>
    ELSE IF Len(s) = 1 THEN LowerChar(s[1])
    ELSE LET h == Len(s) \div 2
         IN  Lower(SubSeq(s, 1, h)) \o Lower(SubSeq(s, h + 1, Len(s)))

\* str.replace(' ', '-')
ReplaceSpaces(s) == [i \in 1..Len(s) |-> IF s[i] = " " THEN "-" ELSE s[i]]

\* re.sub(r'[^a-z0-9-]', '', s)
RemoveInvalid(s) == SelectSeq(s, LAMBDA c : c \in AllowedChars)

\* as CollapseHyphens, but a run of hyphens is left as it is
CollapseHyphens_Keep(s) == s

\* re.sub(r'-+', '-', s): every maximal run of hyphens becomes one hyphen,
\* that is, a hyphen that follows a hyphen is dropped
CollapseHyphens(s) ==
    LET marked == [i \in 1..Len(s) |->
                      [c |-> s[i], keep |-> ~(s[i] = "-" /\ i > 1 /\ s[i - 1] = "-")]]
        kept == SelectSeq(marked, LAMBDA m : m.keep)
    IN  [i \in 1..Len(kept) |-> kept[i].c]

\* str.strip('-'): what lies between the first and the last character that
\* is not a hyphen
StripHyphens(s) ==
    LET solid == {i \in 1..Len(s) : s[i] # "-"}
    IN  IF solid = {} THEN <<>>
        ELSE SubSeq(s, CHOOSE i \in solid : \A j \in solid : i <= j,
                       CHOOSE i \in solid : \A j \in solid : i >= j)

\* lines 15-19: the value of clean before the checks
Normalize(name) ==
    StripHyphens(CollapseHyphens(RemoveInvalid(ReplaceSpaces(Lower(name)))))

\* the in operator of str: sub occurs in s
Contains(s, sub) ==
    \E i \in 0..(Len(s) - Len(sub)) : SubSeq(s, i + 1, i + Len(sub)) = sub

Anthropic == <<"a","n","t","h","r","o","p","i","c">>
Claude == <<"c","l","a","u","d","e">>

\* line 22
HasReserved(clean) == Contains(clean, Anthropic) \/ Contains(clean, Claude)

\* as HasReserved, but the test is made on the raw name's lowercase, before
\* the invalid characters are removed
sanitize_name_EarlyCheck(name) ==
    LET clean == Normalize(name)
    IN  IF HasReserved(Lower(name))
        THEN [ok |-> FALSE, value |-> <<>>, error |-> "reserved"]
        ELSE IF Len(clean) > MaxNameLen
        THEN [ok |-> FALSE, value |-> <<>>, error |-> "too long"]
        ELSE [ok |-> TRUE, value |-> clean, error |-> ""]

\* sanitize_name: either returns clean or raises ValueError
sanitize_name(name) ==
    LET clean == Normalize(name)
    IN  IF HasReserved(clean)
        THEN [ok |-> FALSE, value |-> <<>>, error |-> "reserved"]
        ELSE IF Len(clean) > MaxNameLen
        THEN [ok |-> FALSE, value |-> <<>>, error |-> "too long"]
        ELSE [ok |-> TRUE, value |-> clean, error |-> ""]

-----------------------------------------------------------------------------
(* Text: the description is a run-length encoded string, a sequence of runs *)
(* [c |-> character, n |-> repetitions]; "LF" is the newline character.     *)

Run(c, n) == [c |-> c, n |-> n]

RECURSIVE TextLen(_)
\* len(description)
TextLen(t) == IF t = <<>> THEN 0 ELSE Head(t).n + TextLen(Tail(t))

\* the characters str.strip() removes
IsSpace(c) == c \in {" ", "LF"}

RECURSIVE StripTextLeft(_)
StripTextLeft(t) ==
    IF t # <<>> /\ (IsSpace(Head(t).c) \/ Head(t).n = 0) THEN StripTextLeft(Tail(t)) ELSE t

RECURSIVE StripTextRight(_)
StripTextRight(t) ==
    IF t # <<>> /\ (IsSpace(t[Len(t)].c) \/ t[Len(t)].n = 0)
    THEN StripTextRight(SubSeq(t, 1, Len(t) - 1))
    ELSE t

\* description.strip()
StripText(t) == StripTextRight(StripTextLeft(t))

RECURSIVE Rep(_, _)
\* the string c * n
Rep(c, n) ==
    IF n = 0 THEN ""
    ELSE IF n % 2 = 0 THEN LET h == Rep(c, n \div 2) IN h \o h
    ELSE c \o Rep(c, n - 1)

RECURSIVE Join(_)
\* the characters of a name as one string
Join(s) == IF s = <<>> THEN "" ELSE Head(s) \o Join(Tail(s))

RECURSIVE SplitFrom(_, _, _)
SplitFrom(t, lines, cur) ==
    IF t = <<>> THEN Append(lines, cur)
    ELSE IF Head(t).c = "LF" /\ Head(t).n > 0
    THEN SplitFrom(Tail(t), Append(lines, cur) \o [i \in 1..(Head(t).n - 1) |-> ""], "")
    ELSE SplitFrom(Tail(t), lines, cur \o Rep(Head(t).c, Head(t).n))

\* the lines a text occupies once it is interpolated into a template
TextLines(t) == SplitFrom(t, <<>>, "")

\* the lines of the template line  prefix{text}suffix
Interpolate(prefix, t, suffix) ==
    LET ls == TextLines(t)
    IN  [i \in 1..Len(ls) |->
            (IF i = 1 THEN prefix ELSE "") \o ls[i] \o (IF i = Len(ls) THEN suffix ELSE "")]

-----------------------------------------------------------------------------
(* Paths and the file system *)

\* a pathlib.Path: absolute or relative, with its components
MkPath(abs, parts) == [abs |-> abs, parts |-> parts]

\* the process's current working directory
CwdPath == <<"work">>

\* Path(...) keeps no empty component: Path(p) / "" is Path(p), Path("./") is Path(".")
Component(name) == IF name = "" THEN <<>> ELSE <<name>>

\* p / name
PathJoin(p, name) == MkPath(p.abs, p.parts \o Component(name))

\* the location a path denotes
Resolve(p) == IF p.abs THEN p.parts ELSE CwdPath \o p.parts

Dir == [kind |-> "dir", content |-> <<>>]
File(content) == [kind |-> "file", content |-> content]

Exists(f, p) == p \in DOMAIN f
IsDir(f, p) == Exists(f, p) /\ f[p].kind = "dir"

Prefixes(p) == { SubSeq(p, 1, k) : k \in 0..Len(p) }

\* f with path p bound to entry e
Put(f, p, e) == [q \in DOMAIN f \cup {p} |-> IF q = p THEN e ELSE f[q]]

\* Path.mkdir(parents=True, exist_ok=True) on location p
MkdirParents(f, p) ==
    IF \E q \in Prefixes(p) : Exists(f, q) /\ ~IsDir(f, q)
    THEN [ok |-> FALSE, fs |-> f,
          error |-> IF Exists(f, p) THEN "FileExistsError" ELSE "NotADirectoryError"]
    ELSE [ok |-> TRUE,
          fs |-> [q \in DOMAIN f \cup Prefixes(p) |-> IF Exists(f, q) THEN f[q] ELSE Dir],
          error |-> ""]

\* as Mkdir, but an existing directory is emptied
Mkdir_Wipe(f, p) ==
    IF IsDir(f, p)
    THEN [ok |-> TRUE,
          fs |-> [q \in {r \in DOMAIN f : ~(Len(r) > Len(p) /\ SubSeq(r, 1, Len(p)) = p)} |-> f[q]],
          error |-> ""]
    ELSE IF Exists(f, p) THEN [ok |-> FALSE, fs |-> f, error |-> "FileExistsError"]
    ELSE [ok |-> TRUE, fs |-> Put(f, p, Dir), error |-> ""]

\* Path.mkdir(exist_ok=True) on location p, whose parent is a directory
Mkdir(f, p) ==
    IF IsDir(f, p) THEN [ok |-> TRUE, fs |-> f, error |-> ""]
    ELSE IF Exists(f, p) THEN [ok |-> FALSE, fs |-> f, error |-> "FileExistsError"]
    ELSE [ok |-> TRUE, fs |-> Put(f, p, Dir), error |-> ""]

\* as WriteText, but an existing file is opened for appending
WriteText_Append(f, p, content) ==
    IF IsDir(f, p) THEN [ok |-> FALSE, fs |-> f, error |-> "IsADirectoryError"]
    ELSE IF Exists(f, p)
    THEN [ok |-> TRUE, fs |-> Put(f, p, File(f[p].content \o content)), error |-> ""]
    ELSE [ok |-> TRUE, fs |-> Put(f, p, File(content)), error |-> ""]

\* Path.write_text(content) on location p, whose parent is a directory: the
\* file is created or truncated
WriteText(f, p, content) ==
    IF IsDir(f, p) THEN [ok |-> FALSE, fs |-> f, error |-> "IsADirectoryError"]
    ELSE [ok |-> TRUE, fs |-> Put(f, p, File(content)), error |-> ""]

-----------------------------------------------------------------------------
(* Templates: a file's content is the sequence of its lines *)

\* the metadata header (YAML frontmatter) of SKILL.md, lines 67-70
Frontmatter(safe, description) ==
    <<"---", "name: " \o safe>> \o Interpolate("description: ", description, "") \o <<"---">>

\* skill_content, lines 67-108
SkillContent(a, safe, date) ==
    Frontmatter(safe, a.description)
    \o <<"", "# " \o Join(a.skill_name), "", "## Overview", "", a.purpose, "",
         "## When to Use This Skill", "", "Claude should activate this skill when:">>
    \o Interpolate("- ", a.description, "")
    \o <<"", "## Instructions", "", a.instructions, "",
         "## Examples", "", a.examples, "",
         "## Best Practices", "",
         "- Follow all instructions in sequence",
         "- Reference additional files in resources/ when needed",
         "- Use scripts/ for executable code that doesn't need to be in context",
         "- Keep responses focused and actionable", "",
         "## Additional Resources", "",
         "- See REFERENCE.md for detailed documentation",
         "- Check resources/ folder for templates and reference materials",
         "- Review scripts/ for utility code", "",
         "---",
         "*Created: " \o date \o "*",
         "*Version: 1.0.0*",
         IF a.dependencies # "" THEN "*Dependencies: " \o a.dependencies \o "*" ELSE "">>

\* reference_content, lines 114-140
ReferenceContent(a, date) ==
    <<"# " \o Join(a.skill_name) \o " - Reference Documentation", "",
      "This file contains detailed information that doesn't need to be loaded immediately",
      "but can be referenced when needed.", "",
      "## Detailed Context", "", "[Add comprehensive background information here]", "",
      "## Advanced Usage", "",
      "[Document edge cases, advanced scenarios, and complex workflows]", "",
      "## Troubleshooting", "", "[Common issues and their solutions]", "",
      "## Related Resources", "",
      "- Additional documentation in resources/",
      "- Utility scripts in scripts/",
      "- External references: [Add relevant links]", "",
      "## Version History", "",
      "- v1.0.0 (" \o date \o "): Initial release">>

\* resources_readme, lines 145-155
ResourcesReadme(a) ==
    <<"# Resources for " \o Join(a.skill_name), "",
      "This directory contains supplemental files for the skill:", "",
      "- Templates", "- Reference data", "- Example files", "- Configuration samples", "",
      "Files here are loaded on-demand, so they don't count against the initial context budget.">>

\* scripts_readme, lines 160-185 (backquotes and double quotes are left out
\* of the fixed text)
ScriptsReadme(a) ==
    <<"# Scripts for " \o Join(a.skill_name), "",
      "Executable code goes here. Scripts are run via bash, so only their output",
      "(not their code) consumes tokens.", "",
      "## Adding Scripts", "",
      "1. Create Python/shell scripts here",
      "2. Make them executable: chmod +x script.py",
      "3. Reference them in SKILL.md instructions",
      "4. Document their purpose and usage", "",
      "## Example", "",
      "(code fence) python", "#!/usr/bin/env python3", "# Description: What this script does", "",
      "def main():", "    # Your code here", "    pass", "",
      "if __name__ == __main__:", "    main()", "(code fence)">>

\* gitignore_content, lines 190-208
GitignoreContent ==
    <<"# Python", "__pycache__/", "*.py[cod]", "*$py.class", "*.so", ".Python", "",
      "# Virtual environments", "venv/", "env/", "",
      "# IDE", ".vscode/", ".idea/", "",
      "# OS", ".DS_Store", "Thumbs.db">>

\* the five artifacts, in the order create_skill writes them, as paths
\* relative to the target directory
Artifacts ==
    << <<"SKILL.md">>, <<"REFERENCE.md">>, <<"resources", "README.md">>,
       <<"scripts", "README.md">>, <<".gitignore">> >>

ArtifactSet == { Artifacts[i] : i \in 1..Len(Artifacts) }

-----------------------------------------------------------------------------
(* create_skill *)

\* bound on the number of create_skill calls in one run of the model
MaxCalls == 2

\* the dates datetime.now().strftime('%Y-%m-%d') yields during the run
Days == <<"2026-11-04", "2026-11-05">>

NoPath == [returned |-> FALSE, path |-> MkPath(FALSE, <<>>)]
Returned(p) == [returned |-> TRUE, path |-> p]

\* install_path: None, or a path string
NoInstall == [none |-> TRUE, path |-> MkPath(FALSE, <<>>)]
Install(p) == [none |-> FALSE, path |-> p]

\* truth value of install_path on line 56: None and "" are false
Truthy(ip) == ~ip.none /\ (ip.path.abs \/ ip.path.parts # <<>>)

\* lines 55-59
SkillDir(ip, safe) ==
    IF Truthy(ip) THEN PathJoin(ip.path, safe) ELSE MkPath(FALSE, Component(safe))

\* location of the target directory of the call in progress
Target == Resolve(skill_dir)

\* as ValidateDescription, but a description of exactly 1024 characters is
\* refused as too long
ValidateDescription_OffByOne(description) ==
    IF TextLen(description) >= MaxDescLen THEN "ValueError: description too long"
    ELSE IF StripText(description) = <<>> THEN "ValueError: description empty"
    ELSE ""

\* lines 48-53: the error the description raises, "" if none
ValidateDescription(description) ==
    IF TextLen(description) > MaxDescLen THEN "ValueError: description too long"
    ELSE IF StripText(description) = <<>> THEN "ValueError: description empty"
    ELSE ""

\* lines 45-59: sanitize the name, validate the description, resolve skill_dir
Call(a) ==
    /\ pc \in {"idle", "returned", "raised"}
    /\ ncalls < MaxCalls
    /\ ncalls' = ncalls + 1
    /\ prev' = [returned |-> pc = "returned", target |-> Target]
    /\ args' = a
    /\ fs0' = fs
    /\ written' = <<>>
    /\ result' = NoPath
    /\ LET san == sanitize_name(a.skill_name)
           bad == ValidateDescription(a.description)
       IN  IF ~san.ok
           THEN /\ pc' = "raised"
                /\ error' = "ValueError: name " \o san.error
                /\ safe_name' = ""
                /\ skill_dir' = MkPath(FALSE, <<>>)
           ELSE IF bad # ""
           THEN /\ pc' = "raised"
                /\ error' = bad
                /\ safe_name' = Join(san.value)
                /\ skill_dir' = MkPath(FALSE, <<>>)
           ELSE /\ pc' = "mkdir_target"
                /\ error' = ""
                /\ safe_name' = Join(san.value)
                /\ skill_dir' = SkillDir(a.install_path, Join(san.value))
    /\ UNCHANGED <<fs, today, sanVars>>

\* as Step, but a failed operation puts the file system back as the call
\* found it
Step_Rollback(from, to, op) ==
    /\ pc = from
    /\ fs' = IF op.ok THEN op.fs ELSE fs0
    /\ pc' = IF op.ok THEN to ELSE "raised"
    /\ error' = IF op.ok THEN "" ELSE op.error
    /\ UNCHANGED <<today, args, safe_name, skill_dir, result, fs0, prev, ncalls, sanVars>>

\* one file-system operation of the call: on success go on to the next
\* position, on failure the exception leaves create_skill
Step(from, to, op) ==
    /\ pc = from
    /\ fs' = op.fs
    /\ pc' = IF op.ok THEN to ELSE "raised"
    /\ error' = IF op.ok THEN "" ELSE op.error
    /\ UNCHANGED <<today, args, safe_name, skill_dir, result, fs0, prev, ncalls, sanVars>>

\* line 62
MkdirTarget ==
    /\ Step("mkdir_target", "mkdir_resources", MkdirParents(fs, Target))
    /\ UNCHANGED written

\* line 63
MkdirResources ==
    /\ Step("mkdir_resources", "mkdir_scripts", Mkdir(fs, Target \o <<"resources">>))
    /\ UNCHANGED written

\* line 64
MkdirScripts ==
    /\ Step("mkdir_scripts", "write_skill", Mkdir(fs, Target \o <<"scripts">>))
    /\ UNCHANGED written

\* one write_text of the call: artifact number k with the given content
Write(from, to, k, content) ==
    LET op == WriteText(fs, Target \o Artifacts[k], content)
    IN  /\ Step(from, to, op)
        /\ written' = IF op.ok THEN Append(written, Artifacts[k]) ELSE written

\* lines 66-111
WriteSkillMd ==
    Write("write_skill", "write_reference", 1, SkillContent(args, safe_name, today))

\* lines 113-142
WriteReference ==
    Write("write_reference", "write_resources_readme", 2, ReferenceContent(args, today))

\* lines 144-157
WriteResourcesReadme ==
    Write("write_resources_readme", "write_scripts_readme", 3, ResourcesReadme(args))

\* lines 159-187
WriteScriptsReadme ==
    Write("write_scripts_readme", "write_gitignore", 4, ScriptsReadme(args))

\* lines 189-210
WriteGitignore ==
    Write("write_gitignore", "return", 5, GitignoreContent)

\* lines 212-241: report, then return skill_dir
Return ==
    /\ pc = "return"
    /\ pc' = "returned"
    /\ result' = Returned(skill_dir)
    /\ UNCHANGED <<fs, today, args, safe_name, skill_dir, error, fs0, written, prev, ncalls, sanVars>>

\* the calendar date changes between two calls
Tick ==
    /\ pc \in {"idle", "returned", "raised"}
    /\ today = Days[1]
    /\ today' = Days[2]
    /\ UNCHANGED <<fs, pc, args, safe_name, skill_dir, error, result, fs0, written, prev, ncalls, sanVars>>

-----------------------------------------------------------------------------
(* Inputs and initial states of the materializer *)

Chars_MySkill == <<"M","y"," ","S","k","i","l","l">>
Chars_Hyphens == <<"-","-","-">>
Chars_ClaudeHelper == <<"C","l","a","u","d","e"," ","H","e","l","p","e","r">>
Chars_TooLong == [i \in 1..(MaxNameLen + 1) |-> "a"]

Names == {Chars_MySkill, Chars_Hyphens, Chars_ClaudeHelper, Chars_TooLong}

Desc_Plain == <<Run("x", 1)>>
Desc_Empty == <<>>
Desc_Blank == <<Run(" ", MaxDescLen)>>
Desc_Max == <<Run("x", MaxDescLen)>>
Desc_TooLong == <<Run("x", MaxDescLen + 1)>>
Desc_TwoLines == <<Run("x", 1), Run("LF", 1), Run("k", 1), Run(":", 1), Run(" ", 1), Run("v", 1)>>

Descriptions ==
    {Desc_Plain, Desc_Empty, Desc_Blank, Desc_Max, Desc_TooLong, Desc_TwoLines}

Install_Skills == Install(MkPath(TRUE, <<"home", ".claude", "skills">>))
Install_Relative == Install(MkPath(FALSE, <<"out">>))

InstallPaths == {NoInstall, Install_Relative, Install_Skills}

MkArgs(name, description, dependencies, install) ==
    [skill_name |-> name, description |-> description, purpose |-> "Why it exists",
     instructions |-> "1. Do the work", examples |-> "An example",
     dependencies |-> dependencies, install_path |-> install]

\* the calls made: every name with and without an install path, and one name
\* with every install path, every description and with dependencies
Inputs ==
    { MkArgs(n, Desc_Plain, "", ip) : n \in Names, ip \in {NoInstall, Install_Skills} }
    \cup { MkArgs(Chars_MySkill, Desc_Plain, "", ip) : ip \in InstallPaths }
    \cup { MkArgs(Chars_MySkill, d, "", NoInstall) : d \in Descriptions }
    \cup { MkArgs(Chars_MySkill, Desc_Plain, "python>=3.8", NoInstall) }

\* the file system before the first call: the root and the working directory
BaseTree == [p \in {<<>>, CwdPath} |-> Dir]

\* f with entry e at location p, the directories above p created
With(f, p, e) == Put(MkdirParents(f, SubSeq(p, 1, Len(p) - 1)).fs, p, e)

OldFile == File(<<"written before">>)

HomeTarget == CwdPath \o <<"my-skill">>

\* a target directory that a user has already filled
PopulatedTree ==
    With(With(With(With(With(BaseTree,
        CwdPath \o <<"keep.txt">>, OldFile),
        HomeTarget \o <<"notes.txt">>, OldFile),
        HomeTarget \o <<"resources", "data.txt">>, OldFile),
        HomeTarget \o <<"scripts", "run.sh">>, OldFile),
        HomeTarget \o <<"SKILL.md">>, OldFile)

InitialTrees ==
    {BaseTree, PopulatedTree}
    \cup { With(BaseTree, HomeTarget \o Artifacts[k], Dir) : k \in 1..Len(Artifacts) }
    \cup { With(BaseTree, HomeTarget \o p, OldFile) : p \in {<<>>, <<"resources">>, <<"scripts">>} }

Pending == [ok |-> FALSE, value |-> <<>>, error |-> "pending"]

SanIdle ==
    /\ sanIn = <<>>
    /\ sanOut = Pending
    /\ sanAgain = Pending
    /\ sanStage = "unused"

SkillIdle ==
    /\ today = Days[1]
    /\ pc = "idle"
    /\ args = MkArgs(<<>>, <<>>, "", NoInstall)
    /\ safe_name = ""
    /\ skill_dir = MkPath(FALSE, <<>>)
    /\ error = ""
    /\ result = NoPath
    /\ fs0 = fs
    /\ written = <<>>
    /\ prev = [returned |-> FALSE, target |-> <<>>]
    /\ ncalls = 0

Init ==
    /\ fs \in InitialTrees
    /\ SkillIdle
    /\ SanIdle

CallAny == \E a \in Inputs : Call(a)

Next ==
    \/ CallAny
    \/ MkdirTarget
    \/ MkdirResources
    \/ MkdirScripts
    \/ WriteSkillMd
    \/ WriteReference
    \/ WriteResourcesReadme
    \/ WriteScriptsReadme
    \/ WriteGitignore
    \/ Return
    \/ Tick

Spec == Init /\ [][Next]_vars

-----------------------------------------------------------------------------
(* Sanitizer harness: sanitize_name applied to a name, then to its own result *)

MaxPieces == 3

\* "a" * 64
LongRun == [i \in 1..MaxNameLen |-> "a"]

Pieces ==
    { <<"a">>, <<"B">>, <<"7">>, <<" ">>, <<"-">>, <<"!">>, <<" ", "-", " ">>,
      <<"c","l">>, <<"a","u","d","e">>, <<"C","l","a","u","d","e">>,
      Anthropic, <<"U+212A">>, <<"U+0130">>, LongRun }

RECURSIVE Concat(_)
Concat(ps) == IF ps = <<>> THEN <<>> ELSE Head(ps) \o Concat(Tail(ps))

SanNames == { Concat(ps) : ps \in UNION { [1..n -> Pieces] : n \in 0..MaxPieces } }

SanInit ==
    /\ sanIn \in SanNames
    /\ sanOut = Pending
    /\ sanAgain = Pending
    /\ sanStage = "input"
    /\ fs = BaseTree
    /\ SkillIdle

SanApply ==
    /\ sanStage = "input"
    /\ sanOut' = sanitize_name(sanIn)
    /\ sanStage' = "once"
    /\ UNCHANGED <<sanIn, sanAgain, skillVars>>

SanReapply ==
    /\ sanStage = "once"
    /\ sanOut.ok
    /\ sanAgain' = sanitize_name(sanOut.value)
    /\ sanStage' = "twice"
    /\ UNCHANGED <<sanIn, sanOut, skillVars>>

SanNext == SanApply \/ SanReapply

SpecSan == SanInit /\ [][SanNext]_vars

-----------------------------------------------------------------------------
(* Claims about sanitize_name *)

NoDoubleHyphen(s) == \A i \in 1..(Len(s) - 1) : ~(s[i] = "-" /\ s[i + 1] = "-")

\* C1: whenever sanitize_name returns a value, the value has only characters
\* of [a-z0-9-], no two consecutive hyphens, no hyphen at either end, at most
\* 64 characters, and neither "anthropic" nor "claude" as a substring.
C1_ReturnedSlugIsWellFormed ==
    (sanStage # "input" /\ sanOut.ok) =>
        LET v == sanOut.value
        IN  /\ \A i \in 1..Len(v) : v[i] \in AllowedChars
            /\ NoDoubleHyphen(v)
            /\ (v # <<>> => v[1] # "-" /\ v[Len(v)] # "-")
            /\ Len(v) <= MaxNameLen
            /\ ~Contains(v, Anthropic)
            /\ ~Contains(v, Claude)

\* a name with upper case, spaces, hyphen runs and invalid characters was
\* sanitized to a slug of the full 64 characters
C1_Witness ==
    /\ sanStage = "once"
    /\ sanOut.ok
    /\ Len(sanOut.value) = MaxNameLen
    /\ Len(sanIn) > MaxNameLen
    /\ sanIn[1] = "-"

\* C2: sanitize_name is idempotent: when sanitize_name(s) succeeds,
\* sanitize_name of its result succeeds too and returns the same value.
C2_Idempotent ==
    sanStage = "twice" => (sanAgain.ok /\ sanAgain.value = sanOut.value)

\* the second application has run on a slug that differs from the raw name
C2_Witness ==
    /\ sanStage = "twice"
    /\ sanOut.value # sanIn
    /\ Contains(sanOut.value, <<"-">>)
    /\ sanAgain.ok

\* C3: sanitize_name fails, and never returns an empty slug, for every input
\* that normalizes to the empty string.
C3_EmptyIsRejected ==
    (sanStage # "input" /\ Normalize(sanIn) = <<>>) => ~sanOut.ok

-----------------------------------------------------------------------------
(* Claims about create_skill *)

NameErrors == {"ValueError: name reserved", "ValueError: name too long"}
DescriptionErrors == {"ValueError: description too long", "ValueError: description empty"}

\* a create_skill call has been made and got past its validation
PastValidation == ncalls > 0 /\ error \notin NameErrors \cup DescriptionErrors

\* the locations strictly below directory d
Below(f, d) == { p \in DOMAIN f : Len(p) > Len(d) /\ SubSeq(p, 1, Len(d)) = d }

ArtifactLocations == { Target \o a : a \in ArtifactSet }

DaySet == { Days[i] : i \in 1..Len(Days) }

\* what artifact number k holds when the current call has rendered it
IsRendered(k, content) ==
    CASE k = 1 -> \E d \in DaySet : content = SkillContent(args, safe_name, d)
      [] k = 2 -> \E d \in DaySet : content = ReferenceContent(args, d)
      [] k = 3 -> content = ResourcesReadme(args)
      [] k = 4 -> content = ScriptsReadme(args)
      [] k = 5 -> content = GitignoreContent

\* C4: a raw name whose sanitized form is empty, longer than 64 characters or
\* contains a reserved substring makes create_skill raise the invalid-name
\* error before anything is created: the file system is as the call found it
\* and no path is returned.
C4_InvalidNameLeavesNoTrace ==
    LET clean == Normalize(args.skill_name)
    IN  (ncalls > 0 /\ (clean = <<>> \/ Len(clean) > MaxNameLen \/ HasReserved(clean)))
        => (pc = "raised" /\ fs = fs0 /\ ~result.returned)

\* no run of the text holds a character other than white space
IsBlank(t) == \A i \in 1..Len(t) : t[i].n = 0 \/ t[i].c \in {" ", "LF"}

RejectedUntouched ==
    /\ pc = "raised"
    /\ error \in NameErrors \cup DescriptionErrors
    /\ fs = fs0
    /\ ~result.returned

HeaderLines(content) ==
    IF content = <<>> \/ content[1] # "---" \/ ~\E i \in 2..Len(content) : content[i] = "---"
    THEN <<>>
    ELSE LET close == CHOOSE i \in 2..Len(content) :
                         /\ content[i] = "---"
                         /\ \A j \in 2..(i - 1) : content[j] # "---"
         IN  SubSeq(content, 2, close - 1)

RECURSIVE Flat(_)
\* a text as one string
Flat(t) ==
    IF t = <<>> THEN ""
    ELSE Rep(IF Head(t).c = "LF" THEN "\n" ELSE Head(t).c, Head(t).n) \o Flat(Tail(t))

\* C6: a valid call on an absent target directory leaves under the target
\* exactly the directories resources and scripts and the five files, and the
\* header of SKILL.md holds exactly the two fields name: <safeName> and
\* description: <description>, safeName being sanitize_name(rawName).
C6_ExactTreeAndHeader ==
    (pc = "returned" /\ ~Exists(fs0, Target)) =>
        /\ Below(fs, Target) =
              ArtifactLocations \cup {Target \o <<"resources">>, Target \o <<"scripts">>}
        /\ \A p \in ArtifactLocations : fs[p].kind = "file"
        /\ IsDir(fs, Target \o <<"resources">>)
        /\ IsDir(fs, Target \o <<"scripts">>)
        /\ HeaderLines(fs[Target \o <<"SKILL.md">>].content) =
              << "name: " \o Join(sanitize_name(args.skill_name).value),
                 "description: " \o Flat(args.description) >>

\* C7: a call on the target of the call that returned just before it does not
\* fail, and when its last write is done each of the five artifacts holds
\* exactly what this call rendered.
C7_SecondCallOverwrites ==
    (PastValidation /\ prev.returned /\ prev.target = Target /\ pc # "idle") =>
        /\ pc # "raised"
        /\ pc \in {"return", "returned"} =>
              \A k \in 1..5 :
                  /\ Exists(fs, Target \o Artifacts[k])
                  /\ fs[Target \o Artifacts[k]].kind = "file"
                  /\ IsRendered(k, fs[Target \o Artifacts[k]].content)

\* the second call has returned on the first call's target, and SKILL.md is
\* no longer what the first call left
C7_Witness ==
    /\ pc = "returned"
    /\ prev.returned
    /\ prev.target = Target
    /\ Exists(fs0, Target \o <<"SKILL.md">>)
    /\ fs0[Target \o <<"SKILL.md">>] # fs[Target \o <<"SKILL.md">>]

\* C8: directory creation is additive.  A call that finds the target,
\* resources and scripts already there does not fail on them, and whatever
\* existed when the call was made, other than the five artifact paths, still
\* exists unchanged.
C8_AdditiveCreation ==
    ncalls > 0 =>
        /\ \A p \in DOMAIN fs0 :
              p \notin ArtifactLocations => (Exists(fs, p) /\ fs[p] = fs0[p])
        /\ (/\ PastValidation
            /\ IsDir(fs0, Target)
            /\ IsDir(fs0, Target \o <<"resources">>)
            /\ IsDir(fs0, Target \o <<"scripts">>))
              => (pc = "raised" =>
                    /\ error = "IsADirectoryError"
                    /\ \E p \in ArtifactLocations : IsDir(fs0, p))

\* a call has returned on a target whose directories held the user's files,
\* and those files are as they were
C8_Witness ==
    /\ pc = "returned"
    /\ Target = HomeTarget
    /\ fs0 = PopulatedTree
    /\ fs # fs0
    /\ fs[HomeTarget \o <<"resources", "data.txt">>] = OldFile
    /\ fs[HomeTarget \o <<"notes.txt">>] = OldFile

\* the order of the writes, as the claim gives it
ClaimedOrder ==
    << <<"SKILL.md">>, <<"REFERENCE.md">>, <<"resources", "README.md">>,
       <<"scripts", "README.md">>, <<".gitignore">> >>

\* C9: the artifacts are written in the order SKILL.md, REFERENCE.md,
\* resources/README.md, scripts/README.md, .gitignore; when a write fails the
\* artifacts written before it keep their new content, the later ones are
\* not written, the error reaches the caller and no path is returned.
C9_OrderedWritesNoRollback ==
    PastValidation =>
        /\ written = SubSeq(ClaimedOrder, 1, Len(written))
        /\ \A k \in 1..Len(written) :
              /\ Exists(fs, Target \o ClaimedOrder[k])
              /\ fs[Target \o ClaimedOrder[k]].kind = "file"
              /\ IsRendered(k, fs[Target \o ClaimedOrder[k]].content)
        /\ \A k \in (Len(written) + 1)..5 :
              LET p == Target \o ClaimedOrder[k]
              IN  IF Exists(fs0, p) THEN Exists(fs, p) /\ fs[p] = fs0[p] ELSE ~Exists(fs, p)
        /\ pc = "raised" => (error # "" /\ ~result.returned)
        /\ result.returned => (pc = "returned" /\ Len(written) = 5)

\* the third write has failed after two artifacts were written
C9_Witness ==
    /\ pc = "raised"
    /\ error = "IsADirectoryError"
    /\ Len(written) = 2
    /\ fs # fs0
    /\ ~Exists(fs, Target \o <<".gitignore">>)

\* C10: on success create_skill returns the absolute path of the target
\* directory: installPath/safeName when an install path is given, the
\* directory safeName under the working directory when it is not.
C10_ReturnsAbsoluteTarget ==
    result.returned =>
        /\ result.path.abs
        /\ result.path.parts =
              IF args.install_path.none
              THEN CwdPath \o Component(safe_name)
              ELSE Resolve(args.install_path.path) \o Component(safe_name)

====
